---- MODULE Spec2Model ----
(***************************************************************************)
(* capture-template: the capture session of one TemplateRenderer.          *)
(*                                                                         *)
(* One TemplateRenderer owns a WebPageRenderer (the headless browser) and  *)
(* a TemplateWebServer (template configuration + WebServer).  Every await  *)
(* of the TypeScript source is a suspension point: the synchronous part of *)
(* a method and the continuations that run in the same turn of the event   *)
(* loop are one action; the completion of an I/O operation (file read,     *)
(* template inflation, listen, close, browser end) is the next one.        *)
(***************************************************************************)
EXTENDS Integers, Sequences, FiniteSets, TLC

\* ---------------------------------------------------------------- bounds
MaxServers == 2     \* loadTemplate calls (one TemplateWebServer object each)
MaxBrowsers == 2    \* start calls (one WebPageRenderer object each)
MaxCalls == 4       \* API calls of the caller, all methods together
MaxRenders == 2     \* render calls
MaxRequests == 3    \* HTTP requests received by one WebServer
MaxWprCalls == 2    \* renders of one page by one WebPageRenderer
MaxStops == 2       \* calls of stop() on one WebServer

FixedPort == 3000       \* an explicitly requested port
EphemeralBase == 5000   \* ports the OS hands out for a request of port 0

ServerIds == 1..MaxServers
BrowserIds == 1..MaxBrowsers
RequestedPorts == {0, FixedPort}
RequestIds == 1..MaxRequests

\* ------------------------------------------------------------ page layout
\* Lengths measured in the page are in units of 1/Scale pixel; the viewport
\* and the body's scroll size are whole pixels.
Scale == 4

\* Math.ceil of a length, in pixels.
CeilPx(q) == (q + Scale - 1) \div Scale

\* The viewport of a new Nightmare browser.
DefaultViewport == [w |-> 800, h |-> 600]

\* A static page: the margin of its body in pixels, whether the elements to
\* capture are as wide as the body or 300 pixels (plus `extra`), and the
\* fraction of a pixel by which they are offset.
Layouts ==
    {[margin |-> m, fluid |-> f, offset |-> o, extra |-> e] :
        m \in {0, 8}, f \in BOOLEAN, o \in {0, 2}, e \in {0, 1}}
NoLayout == [margin |-> 0, fluid |-> FALSE, offset |-> 0, extra |-> 0]
ContentHeight == 400

\* body.scrollWidth and body.scrollHeight under viewport vp: the body is as
\* wide as the viewport less its margins, and as high as its content.
BodySize(lay, vp) == [w |-> vp.w - 2 * lay.margin, h |-> ContentHeight]

\* element.getBoundingClientRect() under viewport vp.
BoundingClientRect(lay, sel, vp) ==
    LET left == Scale * lay.margin + lay.offset
        top == Scale * lay.margin + lay.offset
        width == IF lay.fluid THEN Scale * (vp.w - 2 * lay.margin)
                 ELSE Scale * 300 + lay.extra
        height == IF sel = "#chart" THEN Scale * 200 ELSE Scale * 100
    IN [left |-> left, top |-> top, right |-> left + width, bottom |-> top + height]

\* ------------------------------------------------------- JavaScript values
Undefined == [t |-> "undefined"]
JsNull == [t |-> "null"]
Str(s) == [t |-> "string", v |-> s]
Num(n) == [t |-> "number", v |-> n]
Bool(b) == [t |-> "boolean", v |-> b]

\* JavaScript truthiness, as `!x` reads it.
Truthy(x) ==
    CASE x.t = "string" -> x.v # ""
      [] x.t = "number" -> x.v # 0
      [] x.t = "boolean" -> x.v
      [] x.t = "object" -> TRUE
      [] OTHER -> FALSE

TypeOf(x) == x.t

\* A parsed template.json that is an object: its two fields.
Config(ws, cs) == [t |-> "object", waitSelector |-> ws, captureSelector |-> cs]

WaitSelectors == {Undefined, Str(""), Num(5), Str("#chart")}

\* What template.json holds: no readable file, text that is not JSON, the
\* JSON document null, or a JSON object.
ConfigFiles ==
    {[kind |-> "absent"], [kind |-> "malformed"], [kind |-> "json", value |-> JsNull]}
    \cup {[kind |-> "json", value |-> Config(ws, Undefined)] : ws \in WaitSelectors}

\* readFile + JSON.parse inside the try block: TRUE when either throws.
ReadConfigThrows(file) == file.kind # "json"

\* The value JSON.parse returns.
ParseConfig(file) == file.value

\* Reading `.waitSelector` of the parsed value throws a TypeError on null.
WaitSelectorReadThrows(cfg) == cfg.t = "null"

ValidWaitSelector_NoTypeCheck(cfg) ==
    Truthy(cfg.waitSelector)

\* The negation of the validation test:
\* !cfg.waitSelector || typeof(cfg.waitSelector) !== "string"
ValidWaitSelector(cfg) ==
    Truthy(cfg.waitSelector) /\ TypeOf(cfg.waitSelector) = "string"

\* "http://127.0.0.1:" + assignedPortNo
Url(port) == [host |-> "127.0.0.1", port |-> port]

\* Reading a property of null throws a TypeError.
TypeError == [threw |-> "TypeError"]

VARIABLES
    webPageRenderer,    \* TemplateRenderer.webPageRenderer: 0 (null) or a WebPageRenderer
    nBrowsers,          \* WebPageRenderer objects created so far
    nightmare,          \* WebPageRenderer.nightmare per object: "null" | "live"
    browser,            \* the browser process: "none" | "running" | "ended"
    templateWebServer,  \* TemplateRenderer.templateWebServer: 0 (null) or a TemplateWebServer
    nServers,           \* TemplateWebServer objects created so far
    templateConfig,     \* TemplateWebServer.templateConfig per object (JsNull = null)
    webServer,          \* TemplateWebServer.webServer per object: non-null?
    requestedPortNo,    \* WebServer.requestedPortNo
    assignedPortNo,     \* WebServer.assignedPortNo
    server,             \* WebServer.server per object: non-null?
    sock,               \* the listening socket: "none" | "binding" | "listening" | "closing" | "closed" | "failed"
    boundPort,          \* the port the operating system bound the socket to (0: none)
    load,               \* per loadTemplate call (= per TemplateWebServer object): progress and outcome
    unloading,          \* unloadTemplate activations waiting for WebServer.stop's callback
    ending,             \* end() activations waiting for nightmare.end()
    rendering,          \* renders in flight in the browser
    navs,               \* navigations handed to the browser
    lastRender,         \* the latest render call: state it was made in, outcome
    lastLife,           \* the latest lifecycle call that settled
    lastRead,           \* the latest template.json read: the call and what the file held
    sequential,         \* every call so far was made after all earlier calls had settled
    ncalls,             \* API calls made so far
    wprFmt,             \* WebPageRenderer render under study: "image" | "pdf"
    wprOptions,         \* its options argument (the template configuration)
    page,               \* the selectors that match an element of the rendered page
    wprPc,              \* its progress: "idle" | "running" | "resolved" | "rejected"
    driverLog,          \* the actions it has issued to the browser driver, in order
    wprDone,            \* how many of them have completed
    reachable,          \* the page it navigates to can be loaded
    crashed,            \* the browser's 'crashed' event: "no" | "idle" | "midRender" (when it fired)
    layout,             \* how the static page under study lays out
    viewport,           \* the browser's viewport size, in pixels
    shots,              \* the crop rectangles handed to screenshot, one per image render
    wprCalls,           \* render calls made on the WebPageRenderer under study
    wprLogged,          \* what the WebPageRenderer's event handlers logged last
    template,           \* WebServer.start's template: file system path -> expanded content
    data,               \* WebServer.start's data argument
    fileCache,          \* the fileCache object of WebServer.start
    pending,            \* requests waiting for templateFile.expand()
    responses,          \* the response sent to each request
    expands,            \* calls of templateFile.expand() so far, per file
    errorLog,           \* requests whose failure was logged with this.error
    rendererOptions,    \* the options the TemplateRenderer was constructed with
    errorSinks,         \* where this.error of the WebServer has written: "logger" | "console"
    nRequests,          \* requests received so far
    stops,              \* the calls of WebServer.stop: pending (and the error close reports) or settled
    capEntry,           \* the entry point under study: captureImage | capturePDF | renderImage | renderPDF
    capOptions,         \* its options argument (captureImage, capturePDF)
    capPc,              \* the statement it is at, or "resolved" | "rejected"
    dirExists,          \* the parent directory of outputPath exists
    capBrowser,         \* its TemplateRenderer's browser: "none" | "running" | "ended"
    capTemplate,        \* its TemplateRenderer's template: "none" | "loaded" | "unloaded"
    capRender           \* the render handed to the browser driver, and whether the directory existed

driverVars == <<wprFmt, wprOptions, page, wprPc, driverLog, wprDone, reachable, crashed,
                layout, viewport, shots, wprCalls, wprLogged>>
httpVars == <<template, data, fileCache, pending, responses, expands, errorLog, nRequests,
              stops, rendererOptions, errorSinks>>
captureVars == <<capEntry, capOptions, capPc, dirExists, capBrowser, capTemplate, capRender>>

vars == <<webPageRenderer, nBrowsers, nightmare, browser, templateWebServer, nServers,
          templateConfig, webServer, requestedPortNo, assignedPortNo, server, sock,
          boundPort, load, unloading, ending, rendering, navs, lastRender, lastLife, lastRead,
          sequential, ncalls, driverVars, httpVars, captureVars>>

browserVars == <<webPageRenderer, nBrowsers, nightmare, browser>>
serverVars == <<templateConfig, webServer, requestedPortNo, assignedPortNo, server, sock,
                boundPort>>
renderVars == <<rendering, navs, lastRender>>

\* ------------------------------------------------- requests and templates
\* A request url and a file name are written as url.split('/') gives them.
Root == <<"", "">>                  \* "/"
IndexHtml == <<"index.html">>       \* "index.html"
RequestUrls ==
    {Root, <<"", "index.html">>, <<"", "empty.css">>, <<"", "missing.js">>, <<"", "data">>,
     <<"", "js", "app.js">>}

FileName_NoRewrite(url) == url

\* The file name the request handler asks loadTemplateFile for.
FileName(url) == IF url = Root THEN IndexHtml ELSE url

\* path.join(...url.split('/')): the empty segments drop out.
FileSystemPath(url) == SelectSeq(url, LAMBDA seg : seg # "")

CacheKeys == {FileName(u) : u \in RequestUrls}

\* Templates: the files they hold and what each expands to.  One file
\* expands to the empty string; one template holds a file named "data".
SiteFiles ==
    (<<"index.html">> :> Str("<html>")) @@ (<<"empty.css">> :> Str(""))
    @@ (<<"js", "app.js">> :> Str("app"))
Templates == {SiteFiles, SiteFiles @@ (<<"data">> :> Str("data file"))}
TemplatePaths == {<<"index.html">>, <<"empty.css">>, <<"js", "app.js">>, <<"data">>}

DataObjects == {[t |-> "object", msg |-> "Hello computer"], [t |-> "object", msg |-> "Bye"]}

NoResponse == [url |-> <<>>, status |-> 0, body |-> Undefined]

\* No request has been received by the WebServer under study.
HttpIdle ==
    /\ fileCache = [k \in CacheKeys |-> Undefined]
    /\ pending = {}
    /\ responses = [i \in RequestIds |-> NoResponse]
    /\ expands = [p \in TemplatePaths |-> 0]
    /\ errorLog = {}
    /\ errorSinks = {}
    /\ nRequests = 0
    /\ stops = <<>>

\* No WebServer is under study.
NoHttp ==
    /\ template = SiteFiles
    /\ data = Undefined
    /\ rendererOptions = Undefined
    /\ HttpIdle

NoRender == [reached |-> FALSE, dirExisted |-> FALSE]

\* No capture function is under study.
NoCapture ==
    /\ capEntry = "none"
    /\ capOptions = Undefined
    /\ capPc = "idle"
    /\ dirExists = FALSE
    /\ capBrowser = "none"
    /\ capTemplate = "none"
    /\ capRender = NoRender

NoLoad == [pc |-> "none", port |-> 0, prev |-> 0, err |-> "none"]

\* No render of the WebPageRenderer under study.
DriverIdle ==
    /\ wprFmt = "image"
    /\ wprOptions = Config(Undefined, Undefined)
    /\ page = {}
    /\ wprPc = "idle"
    /\ driverLog = <<>>
    /\ wprDone = 0
    /\ reachable = TRUE
    /\ crashed = "no"
    /\ layout = NoLayout
    /\ viewport = DefaultViewport
    /\ shots = <<>>
    /\ wprCalls = 0
    /\ wprLogged = <<>>

InitBrowser ==
    /\ webPageRenderer = 0
    /\ nBrowsers = 0
    /\ nightmare = [b \in BrowserIds |-> "null"]
    /\ browser = [b \in BrowserIds |-> "none"]

InitTemplate ==
    /\ templateWebServer = 0
    /\ nServers = 0
    /\ templateConfig = [n \in ServerIds |-> JsNull]
    /\ webServer = [n \in ServerIds |-> FALSE]
    /\ requestedPortNo = [n \in ServerIds |-> 0]
    /\ assignedPortNo = [n \in ServerIds |-> 0]
    /\ server = [n \in ServerIds |-> FALSE]
    /\ sock = [n \in ServerIds |-> "none"]
    /\ boundPort = [n \in ServerIds |-> 0]
    /\ load = [n \in ServerIds |-> NoLoad]
    /\ unloading = {}
    /\ ending = {}
    /\ rendering = 0
    /\ navs = {}
    /\ lastRender = [n |-> 0, started |-> FALSE, loaded |-> FALSE, out |-> "none"]
    /\ lastLife = [op |-> "none", ok |-> TRUE, tws |-> 0, quiet |-> FALSE]
    /\ lastRead = [n |-> 0, file |-> [kind |-> "absent"]]
    /\ sequential = TRUE
    /\ ncalls = 0

Init == InitBrowser /\ InitTemplate /\ DriverIdle /\ NoHttp /\ NoCapture

\* ------------------------------------------------------------ bookkeeping
LoadPending(n) == load[n].pc \in {"readFile", "inflate", "listen", "hung"}

\* An API call of the caller has not settled yet.  The unloadTemplate that
\* loadTemplate starts without awaiting it is no call of the caller.
CallsInFlight ==
    \/ \E n \in ServerIds : LoadPending(n)
    \/ \E u \in unloading : u.from # "load"
    \/ ending # {}
    \/ rendering > 0

MakeCall ==
    /\ ncalls < MaxCalls
    /\ ncalls' = ncalls + 1
    /\ sequential' = (sequential /\ ~CallsInFlight)

\* quiet: the call settled without stopping a server or ending a browser.
Settled(op, ok, n) == [op |-> op, ok |-> ok, tws |-> n, quiet |-> FALSE]

SettledNoOp(op) == [op |-> op, ok |-> TRUE, tws |-> 0, quiet |-> TRUE]

\* ------------------------------------------------------ TemplateRenderer
PreRenderCheck_NoTemplateCheck ==
    IF webPageRenderer = 0 THEN "NotStarted" ELSE "ok"

\* TemplateRenderer.preRenderCheck: the error it throws, or "ok".
PreRenderCheck ==
    IF webPageRenderer = 0 THEN "NotStarted"
    ELSE IF templateWebServer = 0 THEN "NoTemplate"
    ELSE "ok"

\* WebServer.getUrl of WebServer object n.
WebServerGetUrl(n) == Url(assignedPortNo[n])

\* TemplateWebServer.getUrl of object n: this.webServer!.getUrl().
TwsGetUrl(n) == IF webServer[n] THEN WebServerGetUrl(n) ELSE TypeError

\* TemplateRenderer.getUrl: this.templateWebServer!.getUrl().
GetUrl == IF templateWebServer = 0 THEN TypeError ELSE TwsGetUrl(templateWebServer)

\* TemplateWebServer.getTemplateConfig of object n: throws when templateConfig is not set.
GetTemplateConfigThrows(n) == ~Truthy(templateConfig[n])

WprPreRenderCheck_NoDriverCheck(b, options) ==
    IF ~Truthy(options.waitSelector) THEN "NoWaitSelector"
    ELSE "ok"

\* WebPageRenderer.preRenderCheck(options) of WebPageRenderer object b.
WprPreRenderCheck(b, options) ==
    IF ~Truthy(options.waitSelector) THEN "NoWaitSelector"
    ELSE IF nightmare[b] = "null" THEN "WprNotStarted"
    ELSE "ok"

\* What a renderImage / renderPDF call does before its first await: the error
\* it throws, in the order the source evaluates, or "navigate".
RenderOutcome ==
    IF PreRenderCheck # "ok" THEN PreRenderCheck
    ELSE IF GetUrl = TypeError THEN "TypeError"
    ELSE IF GetTemplateConfigThrows(templateWebServer) THEN "TwsNotStarted"
    ELSE IF WprPreRenderCheck(webPageRenderer, templateConfig[templateWebServer]) # "ok"
         THEN WprPreRenderCheck(webPageRenderer, templateConfig[templateWebServer])
    ELSE "navigate"

\* ------------------------------------------------------ TemplateWebServer
\* What the synchronous part of unloadTemplate() does with TemplateWebServer t:
\*   "none"   no template web server: nothing to do
\*   "tick"   TemplateWebServer.end finds no web server and resolves at once
\*   "reject" WebServer.stop reads this.server of a stopped server (TypeError)
\*   "wait"   server.close(callback) was called, the callback is pending
StopKind(t) ==
    IF t = 0 THEN "none"
    ELSE IF ~webServer[t] THEN "tick"
    ELSE IF ~server[t] THEN "reject"
    ELSE "wait"

\* server.close on a server that is not listening hands its callback an error.
CloseErr(t) == sock[t] # "listening"

\* The synchronous part of TemplateWebServer.end (and of WebServer.stop) on t.
TwsEndSync(t) ==
    /\ templateConfig' = IF t = 0 THEN templateConfig
                         ELSE [templateConfig EXCEPT ![t] = JsNull]
    /\ sock' = IF StopKind(t) = "wait" /\ sock[t] = "listening"
               THEN [sock EXCEPT ![t] = "closing"] ELSE sock

ConfigPhase_NoValidation(file) ==
    IF ReadConfigThrows(file) THEN "ConfigNotFound" ELSE "ok"

\* The configuration phase of TemplateWebServer.start: "ok" or the error thrown.
ConfigPhase(file) ==
    IF ReadConfigThrows(file) THEN "ConfigNotFound"
    ELSE IF WaitSelectorReadThrows(ParseConfig(file)) THEN "TypeError"
    ELSE IF ~ValidWaitSelector(ParseConfig(file)) THEN "ConfigInvalid"
    ELSE "ok"

\* ----------------------------------------------------------------- start
\* TemplateRenderer.start(): a new WebPageRenderer, whose start() launches
\* the browser without suspending.
Start ==
    /\ MakeCall
    /\ nBrowsers < MaxBrowsers
    /\ LET b == nBrowsers + 1 IN
        /\ nBrowsers' = b
        /\ webPageRenderer' = b
        /\ nightmare' = [nightmare EXCEPT ![b] = "live"]
        /\ browser' = [browser EXCEPT ![b] = "running"]
    /\ lastLife' = Settled("start", TRUE, 0)
    /\ UNCHANGED <<templateWebServer, nServers, serverVars, load, unloading, ending,
                   renderVars,
                   lastRead>>
    /\ UNCHANGED <<driverVars, httpVars, captureVars>>

\* ---------------------------------------------------------- loadTemplate
\* TemplateRenderer.loadTemplate up to its await: unloadTemplate() is called
\* and not awaited, a new TemplateWebServer is stored, and its start() begins
\* reading template.json.  When the old TemplateWebServer had no web server,
\* the continuation of unloadTemplate runs before any I/O completes and
\* assigns null to this.templateWebServer.
LoadTemplateCall(port) ==
    /\ MakeCall
    /\ nServers < MaxServers
    /\ LET n == nServers + 1
           old == templateWebServer
           kind == StopKind(old)
       IN
        /\ nServers' = n
        /\ TwsEndSync(old)
        /\ unloading' = IF kind = "wait"
                        THEN unloading \cup {[tws |-> old, from |-> "load", err |-> CloseErr(old)]}
                        ELSE unloading
        /\ templateWebServer' = IF kind = "tick" THEN 0 ELSE n
        /\ load' = [load EXCEPT ![n] =
                      [pc |-> "readFile", port |-> port, prev |-> old, err |-> "none"]]
    /\ UNCHANGED <<browserVars, webServer, requestedPortNo, assignedPortNo, server,
                   boundPort, ending, renderVars, lastLife, lastRead>>
    /\ UNCHANGED <<driverVars, httpVars, captureVars>>

RejectLoad(n, err) ==
    /\ load' = [load EXCEPT ![n].pc = "rejected", ![n].err = err, ![n].port = 0]
    /\ lastLife' = Settled("loadTemplate", FALSE, n)

\* readFile completes with what template.json holds: JSON.parse, the
\* waitSelector validation, then inflateTemplate is awaited.
ReadFileDone(n, file) ==
    /\ load[n].pc = "readFile"
    /\ lastRead' = [n |-> n, file |-> file]
    /\ templateConfig' = IF ReadConfigThrows(file) THEN templateConfig
                         ELSE [templateConfig EXCEPT ![n] = ParseConfig(file)]
    /\ IF ConfigPhase(file) = "ok"
       THEN /\ load' = [load EXCEPT ![n].pc = "inflate"]
            /\ UNCHANGED lastLife
       ELSE RejectLoad(n, ConfigPhase(file))
    /\ UNCHANGED <<browserVars, templateWebServer, nServers, webServer, requestedPortNo,
                   assignedPortNo, server, sock, boundPort, unloading, ending, renderVars,
                   sequential, ncalls>>
    /\ UNCHANGED <<driverVars, httpVars, captureVars>>

\* inflateTemplate completes: on success new WebServer(port) and its start(),
\* which creates the http server and calls listen.
InflateDone(n) ==
    /\ load[n].pc = "inflate"
    /\ \/ /\ RejectLoad(n, "InflateError")
          /\ UNCHANGED <<webServer, requestedPortNo, assignedPortNo, server, sock>>
       \/ /\ webServer' = [webServer EXCEPT ![n] = TRUE]
          /\ requestedPortNo' = [requestedPortNo EXCEPT ![n] = load[n].port]
          /\ assignedPortNo' = [assignedPortNo EXCEPT ![n] = load[n].port]
          /\ server' = [server EXCEPT ![n] = TRUE]
          /\ sock' = [sock EXCEPT ![n] = "binding"]
          /\ load' = [load EXCEPT ![n].pc = "listen", ![n].port = 0]
          /\ UNCHANGED lastLife
    /\ UNCHANGED <<browserVars, templateWebServer, nServers, templateConfig, boundPort,
                   unloading, ending, renderVars, sequential, ncalls,
                   lastRead>>
    /\ UNCHANGED <<driverVars, httpVars, captureVars>>

PortInUse(p) == \E m \in ServerIds : sock[m] = "listening" /\ boundPort[m] = p

\* The ports the operating system may bind for server n requesting port r:
\* for port 0 a free ephemeral port (one per server), else r when it is free.
BindablePorts(n, r) ==
    IF r = 0 THEN {EphemeralBase + n}
    ELSE {p \in {r} : ~PortInUse(p)}

\* The listen callback: the socket is bound, assignedPortNo is read from
\* server.address().port, and the promise of WebServer.start resolves, which
\* resolves TemplateWebServer.start and loadTemplate.  When this.server was
\* set to null meanwhile, the callback throws and the promise never settles.
Listening(n) ==
    /\ load[n].pc = "listen"
    /\ sock[n] = "binding"
    /\ \E p \in BindablePorts(n, requestedPortNo[n]) :
        /\ sock' = [sock EXCEPT ![n] = "listening"]
        /\ boundPort' = [boundPort EXCEPT ![n] = p]
        /\ IF server[n]
           THEN /\ assignedPortNo' = [assignedPortNo EXCEPT ![n] = p]
                /\ load' = [load EXCEPT ![n].pc = "resolved"]
                /\ lastLife' = Settled("loadTemplate", TRUE, n)
           ELSE /\ load' = [load EXCEPT ![n].pc = "hung"]
                /\ UNCHANGED <<assignedPortNo, lastLife>>
    /\ UNCHANGED <<browserVars, templateWebServer, nServers, templateConfig, webServer,
                   requestedPortNo, server, unloading, ending, renderVars, sequential,
                   ncalls,
                   lastRead>>
    /\ UNCHANGED <<driverVars, httpVars, captureVars>>

\* The requested port is taken, by a server of this session or (a fixed
\* port) by another process: the server emits 'error', the listen callback
\* is never called, and the promise of WebServer.start never settles.
ListenError(n) ==
    /\ load[n].pc = "listen"
    /\ sock[n] = "binding"
    /\ \/ BindablePorts(n, requestedPortNo[n]) = {}
       \/ requestedPortNo[n] # 0
    /\ sock' = [sock EXCEPT ![n] = "failed"]
    /\ load' = [load EXCEPT ![n].pc = "hung"]
    /\ UNCHANGED <<browserVars, templateWebServer, nServers, templateConfig, webServer,
                   requestedPortNo, assignedPortNo, server, boundPort, unloading, ending,
                   renderVars, lastLife, sequential, ncalls,
                   lastRead>>
    /\ UNCHANGED <<driverVars, httpVars, captureVars>>

\* ------------------------------------------------- unloadTemplate and end
\* The part of end() after `await this.unloadTemplate()`:
\*   "resolve" no web page renderer, end() resolves
\*   "reject"  WebPageRenderer.end reads this.nightmare of an ended renderer
\*   "wait"    nightmare.end() was called and is awaited
EndBrowserKind_NoGuard ==
    IF webPageRenderer = 0 THEN "reject"
    ELSE IF nightmare[webPageRenderer] = "null" THEN "reject"
    ELSE "wait"

EndBrowserKind ==
    IF webPageRenderer = 0 THEN "resolve"
    ELSE IF nightmare[webPageRenderer] = "null" THEN "reject"
    ELSE "wait"

EndBrowserPart ==
    /\ ending' = IF EndBrowserKind = "wait"
                 THEN ending \cup {[wpr |-> webPageRenderer]} ELSE ending
    /\ lastLife' = IF EndBrowserKind = "wait" THEN lastLife
                   ELSE Settled("end", EndBrowserKind = "resolve", 0)

\* What a call of end() does in the current state:
\*   "stopsServer" server.close is called on the web server of the template
\*   "endsBrowser" nothing to stop, nightmare.end() is called
\*   "rejects"     nothing is stopped or ended, end() rejects (TypeError)
\*   "noop"        nothing is stopped or ended, end() resolves
EndOutcome ==
    CASE StopKind(templateWebServer) = "wait" -> "stopsServer"
      [] StopKind(templateWebServer) = "reject" -> "rejects"
      [] OTHER -> CASE EndBrowserKind = "wait" -> "endsBrowser"
                    [] EndBrowserKind = "reject" -> "rejects"
                    [] OTHER -> "noop"

UnloadTemplateCall_DropsBrowser ==
    /\ MakeCall
    /\ LET t == templateWebServer
           kind == StopKind(t)
       IN
        /\ TwsEndSync(t)
        /\ unloading' = IF kind = "wait"
                        THEN unloading \cup {[tws |-> t, from |-> "unload", err |-> CloseErr(t)]}
                        ELSE unloading
        /\ templateWebServer' = IF kind = "tick" THEN 0 ELSE t
        /\ lastLife' = CASE kind = "wait" -> lastLife
                          [] kind = "reject" -> Settled("unloadTemplate", FALSE, 0)
                          [] OTHER -> SettledNoOp("unloadTemplate")
    /\ webPageRenderer' = 0
    /\ UNCHANGED <<nBrowsers, nightmare, browser, nServers, webServer, requestedPortNo,
                   assignedPortNo, server, boundPort, load, ending, renderVars, lastRead>>
    /\ UNCHANGED <<driverVars, httpVars, captureVars>>

\* TemplateRenderer.unloadTemplate() called by the caller.
UnloadTemplateCall ==
    /\ MakeCall
    /\ LET t == templateWebServer
           kind == StopKind(t)
       IN
        /\ TwsEndSync(t)
        /\ unloading' = IF kind = "wait"
                        THEN unloading \cup {[tws |-> t, from |-> "unload", err |-> CloseErr(t)]}
                        ELSE unloading
        /\ templateWebServer' = IF kind = "tick" THEN 0 ELSE t
        /\ lastLife' = CASE kind = "wait" -> lastLife
                          [] kind = "reject" -> Settled("unloadTemplate", FALSE, 0)
                          [] OTHER -> SettledNoOp("unloadTemplate")
    /\ UNCHANGED <<browserVars, nServers, webServer, requestedPortNo, assignedPortNo,
                   server, boundPort, load, ending, renderVars,
                   lastRead>>
    /\ UNCHANGED <<driverVars, httpVars, captureVars>>

\* TemplateRenderer.end() called by the caller: unloadTemplate is awaited,
\* then the web page renderer is ended.
EndCall ==
    /\ MakeCall
    /\ LET t == templateWebServer
           kind == StopKind(t)
       IN
        /\ TwsEndSync(t)
        /\ unloading' = IF kind = "wait"
                        THEN unloading \cup {[tws |-> t, from |-> "end", err |-> CloseErr(t)]}
                        ELSE unloading
        /\ templateWebServer' = IF kind = "tick" THEN 0 ELSE t
        /\ CASE EndOutcome = "stopsServer" -> UNCHANGED <<ending, lastLife>>
             [] EndOutcome = "rejects" -> /\ lastLife' = Settled("end", FALSE, 0)
                                          /\ UNCHANGED ending
             [] EndOutcome = "noop" -> /\ lastLife' = SettledNoOp("end")
                                       /\ UNCHANGED ending
             [] OTHER -> EndBrowserPart
    /\ UNCHANGED <<browserVars, nServers, webServer, requestedPortNo, assignedPortNo,
                   server, boundPort, load, renderVars,
                   lastRead>>
    /\ UNCHANGED <<driverVars, httpVars, captureVars>>

\* The close callbacks of WebServer t run: each sets this.server to null; the
\* one without an error resolves stop(), so TemplateWebServer.end sets its
\* webServer to null and unloadTemplate sets this.templateWebServer to null,
\* whatever it refers to by now; end() goes on to end the browser.  A
\* callback with an error rejects its call.
ServerClosed(t) ==
    LET waiting == {u \in unloading : u.tws = t}
        good == {u \in waiting : ~u.err}
        settles == {Settled("unloadTemplate", ~u.err, 0) : u \in {w \in waiting : w.from = "unload"}}
                   \cup {Settled("end", FALSE, 0) : u \in {w \in waiting : w.from = "end" /\ w.err}}
    IN
    /\ waiting # {}
    /\ unloading' = unloading \ waiting
    /\ server' = [server EXCEPT ![t] = FALSE]
    /\ sock' = IF sock[t] = "closing" THEN [sock EXCEPT ![t] = "closed"] ELSE sock
    /\ webServer' = IF good # {} THEN [webServer EXCEPT ![t] = FALSE] ELSE webServer
    /\ templateWebServer' = IF good # {} THEN 0 ELSE templateWebServer
    /\ IF \E u \in good : u.from = "end"
       THEN EndBrowserPart
       ELSE /\ UNCHANGED ending
            /\ IF settles = {} THEN UNCHANGED lastLife ELSE lastLife' \in settles
    /\ UNCHANGED <<browserVars, nServers, templateConfig, requestedPortNo, assignedPortNo,
                   boundPort, load, renderVars, sequential, ncalls,
                   lastRead>>
    /\ UNCHANGED <<driverVars, httpVars, captureVars>>

\* nightmare.end() completes: WebPageRenderer.end sets nightmare to null and
\* end() sets this.webPageRenderer to null.
BrowserEnded(b) ==
    /\ [wpr |-> b] \in ending
    /\ ending' = ending \ {[wpr |-> b]}
    /\ browser' = [browser EXCEPT ![b] = "ended"]
    /\ nightmare' = [nightmare EXCEPT ![b] = "null"]
    /\ webPageRenderer' = 0
    /\ lastLife' = Settled("end", TRUE, 0)
    /\ UNCHANGED <<nBrowsers, templateWebServer, nServers, serverVars, load, unloading,
                   renderVars, sequential, ncalls,
                   lastRead>>
    /\ UNCHANGED <<driverVars, httpVars, captureVars>>

\* ---------------------------------------------------------------- render
\* TemplateRenderer.renderImage / renderPDF up to the first await: the checks,
\* the URL and configuration handed to the WebPageRenderer, and the goto.
RenderCall(fmt) ==
    /\ MakeCall
    /\ lastRender.n < MaxRenders
    /\ lastRender' = [n |-> lastRender.n + 1,
                      started |-> webPageRenderer # 0,
                      loaded |-> templateWebServer # 0,
                      out |-> RenderOutcome]
    /\ IF RenderOutcome = "navigate"
       THEN /\ navs' = navs \cup {[n |-> lastRender.n + 1,
                                   tws |-> templateWebServer, url |-> GetUrl,
                                   listening |-> sock[templateWebServer] = "listening",
                                   bound |-> boundPort[templateWebServer]]}
            /\ rendering' = rendering + 1
       ELSE UNCHANGED <<navs, rendering>>
    /\ UNCHANGED <<browserVars, templateWebServer, nServers, serverVars, load, unloading,
                   ending, lastLife,
                   lastRead>>
    /\ UNCHANGED <<driverVars, httpVars, captureVars>>

\* The render settles (the capture was written, or a step failed).
RenderDone ==
    /\ rendering > 0
    /\ rendering' = rendering - 1
    /\ UNCHANGED <<browserVars, templateWebServer, nServers, serverVars, load, unloading,
                   ending, navs, lastRender, lastLife, sequential, ncalls,
                   lastRead>>
    /\ UNCHANGED <<driverVars, httpVars, captureVars>>

Next ==
    \/ Start
    \/ \E port \in RequestedPorts : LoadTemplateCall(port)
    \/ \E n \in ServerIds, file \in ConfigFiles : ReadFileDone(n, file)
    \/ \E n \in ServerIds : InflateDone(n)
    \/ \E n \in ServerIds : Listening(n)
    \/ \E n \in ServerIds : ListenError(n)
    \/ UnloadTemplateCall
    \/ EndCall
    \/ \E t \in ServerIds : ServerClosed(t)
    \/ \E b \in BrowserIds : BrowserEnded(b)
    \/ \E fmt \in {"image", "pdf"} : RenderCall(fmt)
    \/ RenderDone

Spec == Init /\ [][Next]_vars

\* ====================================================== WebPageRenderer
\* One renderImage / renderPDF of a WebPageRenderer, step by step: the
\* actions it issues to the Nightmare browser driver and their completion.
MarginsType == 0
PageWidth == 297000
PageHeight == 210000

\* The printOptions object of renderPDF.
PrintOptions ==
    [marginsType |-> MarginsType,
     pageSize |-> [width |-> PageWidth, height |-> PageHeight],
     landscape |-> TRUE]

CropSelector_WaitOnly(options) == options.waitSelector

\* options.captureSelector || options.waitSelector
CropSelector(options) ==
    IF Truthy(options.captureSelector) THEN options.captureSelector
    ELSE options.waitSelector

\* element.getBoundingClientRect() of document.querySelector(sel).
RectOf(sel) == [element |-> sel]

CropRect_CornerDiff(r) ==
    [x |-> CeilPx(r.left),
     y |-> CeilPx(r.top),
     height |-> CeilPx(r.bottom) - CeilPx(r.top),
     width |-> CeilPx(r.right) - CeilPx(r.left)]

\* The rectangle the rectangle evaluate returns: Math.ceil of left, of top,
\* of bottom - top and of right - left.
CropRect(r) ==
    [x |-> CeilPx(r.left),
     y |-> CeilPx(r.top),
     height |-> CeilPx(r.bottom - r.top),
     width |-> CeilPx(r.right - r.left)]

\* The driver actions of renderImage, in the order they are issued.
ImageScript(url, options) ==
    << [op |-> "goto", url |-> url],
       [op |-> "wait", sel |-> options.waitSelector],
       [op |-> "evaluate", what |-> "bodySize"],
       [op |-> "viewport", size |-> "bodySize"],
       [op |-> "evaluate", what |-> "rect", sel |-> CropSelector(options)],
       [op |-> "screenshot", rect |-> RectOf(CropSelector(options))] >>

PdfScript_WaitsForCapture(url, options) ==
    << [op |-> "goto", url |-> url],
       [op |-> "wait", sel |-> CropSelector(options)],
       [op |-> "evaluate", what |-> "documentArea"],
       [op |-> "viewport", size |-> "documentArea"],
       [op |-> "pdf", printOptions |-> PrintOptions] >>

\* The driver actions of renderPDF, in the order they are issued.
PdfScript(url, options) ==
    << [op |-> "goto", url |-> url],
       [op |-> "wait", sel |-> options.waitSelector],
       [op |-> "evaluate", what |-> "documentArea"],
       [op |-> "viewport", size |-> "documentArea"],
       [op |-> "pdf", printOptions |-> PrintOptions] >>

Script(fmt, url, options) ==
    IF fmt = "image" THEN ImageScript(url, options) ELSE PdfScript(url, options)

IssuedAfter_Eager(fmt, done) ==
    IF done < 3 THEN 3
    ELSE IF fmt = "image" THEN 6
    ELSE 5

\* How many actions have been issued once `done` of them have completed:
\* goto, wait and the first evaluate are queued before the first await; each
\* `then` of renderImage issues one more; the `then` of renderPDF issues
\* viewport and pdf together.
IssuedAfter(fmt, done) ==
    IF done < 3 THEN 3
    ELSE IF fmt = "image" THEN done + 1
    ELSE 5

\* document.querySelector(sel) finds an element of the page.
Matches(sel) == sel.t = "string" /\ sel.v \in page

\* The driver action fails: the navigation fails or times out, the wait times
\* out, or the rectangle is asked of an element that is not there.
ActionFails(a) ==
    \/ a.op = "goto" /\ ~reachable
    \/ a.op = "wait" /\ ~Matches(a.sel)
    \/ a.op = "evaluate" /\ a.what = "rect" /\ ~Matches(a.sel)

CaptureSelectors == {Undefined, Str(""), Str("#chart"), Str("#legend")}
RenderOptions ==
    {Config(ws, cs) : ws \in {Undefined, Str("#chart")}, cs \in CaptureSelectors}
Pages == SUBSET {"#chart", "#legend"}
RenderUrl == Url(FixedPort)

\* A WebPageRenderer, started or not, about to render one page.
DriverInit ==
    /\ InitTemplate
    /\ webPageRenderer = 1
    /\ nBrowsers = 1
    /\ \E live \in BOOLEAN :
        /\ nightmare = [b \in BrowserIds |-> IF b = 1 /\ live THEN "live" ELSE "null"]
        /\ browser = [b \in BrowserIds |-> IF b = 1 /\ live THEN "running" ELSE "none"]
    /\ wprFmt \in {"image", "pdf"}
    /\ wprOptions \in RenderOptions
    /\ page \in Pages
    /\ wprPc = "idle"
    /\ driverLog = <<>>
    /\ wprDone = 0
    /\ reachable \in BOOLEAN
    /\ crashed = "no"
    /\ layout \in Layouts
    /\ viewport = DefaultViewport
    /\ shots = <<>>
    /\ wprCalls = 0
    /\ wprLogged = <<>>
    /\ NoHttp
    /\ NoCapture

sessionVars == <<browserVars, templateWebServer, nServers, serverVars, load, unloading,
                 ending, renderVars, lastLife, lastRead, sequential, ncalls>>

\* WebPageRenderer.renderImage / renderPDF up to the first await.
WprRenderCall ==
    /\ wprPc \in {"idle", "resolved"}
    /\ wprCalls < MaxWprCalls
    /\ wprCalls' = wprCalls + 1
    /\ IF WprPreRenderCheck(webPageRenderer, wprOptions) = "ok"
       THEN /\ wprPc' = "running"
            /\ driverLog' = SubSeq(Script(wprFmt, RenderUrl, wprOptions), 1,
                                   IssuedAfter(wprFmt, 0))
            /\ wprDone' = 0
       ELSE /\ wprPc' = "rejected"
            /\ UNCHANGED <<driverLog, wprDone>>
    /\ UNCHANGED <<wprFmt, wprOptions, page, reachable, crashed, layout, viewport, shots,
                   wprLogged, sessionVars, httpVars, captureVars>>

\* The next driver action completes; when it was the last one issued, the
\* next `then` issues more, or the render resolves.
DriverActionDone ==
    /\ wprPc = "running"
    /\ crashed = "no"
    /\ wprDone < Len(driverLog)
    /\ ~ActionFails(driverLog[wprDone + 1])
    /\ wprDone' = wprDone + 1
    /\ IF wprDone + 1 < Len(driverLog)
       THEN UNCHANGED <<wprPc, driverLog>>
       ELSE IF wprDone + 1 = Len(Script(wprFmt, RenderUrl, wprOptions))
       THEN /\ wprPc' = "resolved"
            /\ UNCHANGED driverLog
       ELSE /\ driverLog' = SubSeq(Script(wprFmt, RenderUrl, wprOptions), 1,
                                   IssuedAfter(wprFmt, wprDone + 1))
            /\ UNCHANGED wprPc
    /\ LET a == driverLog[wprDone + 1] IN
        /\ viewport' = IF a.op = "viewport" THEN BodySize(layout, viewport) ELSE viewport
        /\ shots' = IF a.op = "evaluate" /\ a.what = "rect"
                    THEN Append(shots, CropRect(BoundingClientRect(layout, a.sel.v, viewport)))
                    ELSE shots
    /\ UNCHANGED <<wprFmt, wprOptions, page, reachable, crashed, layout, wprCalls,
                   wprLogged, sessionVars, httpVars, captureVars>>

DriverActionFailed_SkipsStep ==
    /\ wprPc = "running"
    /\ wprDone + 1 < Len(driverLog)
    /\ ActionFails(driverLog[wprDone + 1])
    /\ wprDone' = wprDone + 1
    /\ UNCHANGED <<wprFmt, wprOptions, page, wprPc, driverLog, reachable, crashed,
                   layout, viewport, shots, wprCalls, wprLogged, sessionVars, httpVars, captureVars>>

\* The next driver action fails and the render rejects.  In a crashed
\* browser no action completes; the driver may report it as failed, or never
\* settle it.
DriverActionFailed ==
    /\ wprPc = "running"
    /\ wprDone < Len(driverLog)
    /\ ActionFails(driverLog[wprDone + 1]) \/ crashed # "no"
    /\ wprPc' = "rejected"
    /\ UNCHANGED <<wprFmt, wprOptions, page, driverLog, wprDone, reachable, crashed,
                   layout, viewport, shots, wprCalls, wprLogged, sessionVars, httpVars, captureVars>>

\* The browser crashes and Nightmare emits 'crashed'.  The listener that
\* start() registered throws from inside the event dispatch: an uncaught
\* exception.  It assigns no field and settles no promise.
BrowserCrashed ==
    /\ webPageRenderer # 0
    /\ nightmare[webPageRenderer] = "live"
    /\ crashed = "no"
    /\ wprPc \in {"idle", "running"}
    /\ crashed' = IF wprPc = "running" THEN "midRender" ELSE "idle"
    /\ UNCHANGED <<wprFmt, wprOptions, page, wprPc, driverLog, wprDone, reachable,
                   layout, viewport, shots, wprCalls, wprLogged, sessionVars, httpVars, captureVars>>

\* The events of the browser that start() listens to besides 'crashed':
\* 'page' (type, message, stack), 'did-fail-load' and 'console' (type, message).
PageEvents ==
    {[channel |-> "page", type |-> t] : t \in {"error", "alert"}}
    \cup {[channel |-> "did-fail-load", type |-> "load"]}
    \cup {[channel |-> "console", type |-> t] : t \in {"log", "warn", "error", "debug"}}

\* The calls of this.info / this.warn / this.error the listener of the event
\* makes, in order.
Logs(ev) ==
    CASE ev.channel = "page" ->
            IF ev.type = "error" THEN <<"error", "error">> ELSE <<>>
      [] ev.channel = "did-fail-load" -> <<"error", "error", "error", "error", "error">>
      [] ev.channel = "console" ->
            CASE ev.type = "log" -> <<"info">>
              [] ev.type = "warn" -> <<"warn">>
              [] ev.type = "error" -> <<"error", "error">>
              [] OTHER -> <<>>

renderState == <<wprFmt, wprOptions, page, wprPc, driverLog, wprDone, reachable, crashed,
                 layout, viewport, shots, wprCalls>>

PageEvent_Rejects(ev) ==
    /\ wprPc = "running"
    /\ Logs(ev) # <<>>
    /\ wprLogged' = Logs(ev)
    /\ wprPc' = "rejected"
    /\ UNCHANGED <<wprFmt, wprOptions, page, driverLog, wprDone, reachable, crashed,
                   layout, viewport, shots, wprCalls, sessionVars, httpVars, captureVars>>

\* The browser emits one of these events while a render is in flight: its
\* listener logs, and does nothing else.
PageEvent(ev) ==
    /\ wprPc = "running"
    /\ Logs(ev) # <<>>
    /\ wprLogged' = Logs(ev)
    /\ UNCHANGED <<renderState, sessionVars, httpVars, captureVars>>

DriverNext ==
    \/ WprRenderCall
    \/ DriverActionDone
    \/ DriverActionFailed
    \/ BrowserCrashed
    \/ \E ev \in PageEvents : PageEvent(ev)

SpecDriver == DriverInit /\ [][DriverNext]_vars

\* ============================================================ WebServer
\* The request handler of one listening WebServer: the middleware that
\* WebServer.start mounts on "/" and loadTemplateFile.  It is the only route
\* the server has; the data argument of start is not read.
ErrorResponse_Ok(url) == [url |-> url, status |-> 200, body |-> Str("")]

\* response.sendStatus(404)
ErrorResponse(url) == [url |-> url, status |-> 404, body |-> Str("Not Found")]

\* response.send(fileContent)
Sent(url, content) == [url |-> url, status |-> 200, body |-> content]

\* loadTemplateFile up to its await: the cached content when cache[url] is
\* truthy, an exception when template.find returns nothing, else the file
\* whose expand() is awaited.
LoadTemplateFile(url) ==
    IF Truthy(fileCache[url]) THEN [kind |-> "cached", content |-> fileCache[url]]
    ELSE IF FileSystemPath(url) \notin DOMAIN template THEN [kind |-> "throws"]
    ELSE [kind |-> "expand", file |-> FileSystemPath(url)]

\* A logger of the caller, and the options a TemplateRenderer is given:
\* none, options without a logger, options with one.
Logger == [t |-> "object", error |-> "logger.error"]
RendererOptions ==
    {Undefined, [t |-> "object", log |-> Undefined], [t |-> "object", log |-> Logger]}

\* The k-th argument of a call: undefined when the call passes fewer.
Arg(args, k) == IF k <= Len(args) THEN args[k] ELSE Undefined

\* new TemplateWebServer(this.options && this.options.log) in loadTemplate:
\* the arguments of the call, and the fields the constructor
\* (inflateOptions?, log?) sets from them.
TemplateWebServerArgs(options) == <<IF Truthy(options) THEN options.log ELSE options>>

NewTemplateWebServer(args) == [inflateOptions |-> Arg(args, 1), log |-> Arg(args, 2)]

\* new WebServer(port) in TemplateWebServer.start, and the fields the
\* constructor (portNo, log?) sets.
WebServerArgs(tws, port) == <<port>>

NewWebServer(args) == [portNo |-> Arg(args, 1), log |-> Arg(args, 2)]

\* The WebServer that serves the template of a TemplateRenderer constructed
\* with these options.
WebServerOf(options) ==
    NewWebServer(WebServerArgs(NewTemplateWebServer(TemplateWebServerArgs(options)),
                               Num(0)))

\* WebServer.error(msg): this.log.error when this.log is set, else console.error.
ErrorSink(ws) == IF Truthy(ws.log) THEN "logger" ELSE "console"

\* A TemplateRenderer whose template is loaded: WebServer 1 listens.
ServerListening ==
    /\ templateWebServer = 1
    /\ nServers = 1
    /\ templateConfig = [n \in ServerIds |->
                            IF n = 1 THEN Config(Str("#chart"), Undefined) ELSE JsNull]
    /\ webServer = [n \in ServerIds |-> n = 1]
    /\ requestedPortNo = [n \in ServerIds |-> 0]
    /\ assignedPortNo = [n \in ServerIds |-> IF n = 1 THEN EphemeralBase + 1 ELSE 0]
    /\ server = [n \in ServerIds |-> n = 1]
    /\ sock = [n \in ServerIds |-> IF n = 1 THEN "listening" ELSE "none"]
    /\ boundPort = [n \in ServerIds |-> IF n = 1 THEN EphemeralBase + 1 ELSE 0]
    /\ load = [n \in ServerIds |->
                  IF n = 1 THEN [pc |-> "resolved", port |-> 0, prev |-> 0, err |-> "none"]
                  ELSE NoLoad]
    /\ unloading = {}
    /\ ending = {}
    /\ rendering = 0
    /\ navs = {}
    /\ lastRender = [n |-> 0, started |-> FALSE, loaded |-> FALSE, out |-> "none"]
    /\ lastLife = Settled("loadTemplate", TRUE, 1)
    /\ lastRead = [n |-> 1,
                   file |-> [kind |-> "json", value |-> Config(Str("#chart"), Undefined)]]
    /\ sequential = TRUE
    /\ ncalls = 1

\* WebServer.start has resolved and no request has arrived yet.
HttpStarted ==
    /\ InitBrowser
    /\ ServerListening
    /\ DriverIdle
    /\ NoCapture
    /\ HttpIdle

\* The request handler under every template and data object, constructed
\* by a TemplateRenderer without options.
HttpInit ==
    /\ HttpStarted
    /\ template \in Templates
    /\ data \in DataObjects
    /\ rendererOptions = Undefined

\* One template, served to see the server stop.
StopInit ==
    /\ HttpStarted
    /\ template = SiteFiles
    /\ data = [t |-> "object", msg |-> "Hello computer"]
    /\ rendererOptions = Undefined

\* One template, served for a TemplateRenderer constructed with each kind of
\* options.
LoggingInit ==
    /\ HttpStarted
    /\ template = SiteFiles
    /\ data = [t |-> "object", msg |-> "Hello computer"]
    /\ rendererOptions \in RendererOptions

\* A request arrives: the handler runs up to the await of expand(), or to
\* its response when loadTemplateFile returns or throws before that.
HttpRequest(url) ==
    /\ sock[1] = "listening"
    /\ nRequests < MaxRequests
    /\ LET id == nRequests + 1
           fileName == FileName(url)
           r == LoadTemplateFile(fileName)
       IN
        /\ nRequests' = id
        /\ CASE r.kind = "cached" ->
                  /\ responses' = [responses EXCEPT ![id] = Sent(url, r.content)]
                  /\ UNCHANGED <<fileCache, pending, expands, errorLog, errorSinks>>
             [] r.kind = "throws" ->
                  /\ responses' = [responses EXCEPT ![id] = ErrorResponse(url)]
                  /\ errorLog' = errorLog \cup {id}
                  /\ errorSinks' = errorSinks \cup {ErrorSink(WebServerOf(rendererOptions))}
                  /\ UNCHANGED <<fileCache, pending, expands>>
             [] r.kind = "expand" ->
                  /\ pending' = pending \cup
                                  {[id |-> id, url |-> url, key |-> fileName, file |-> r.file]}
                  /\ expands' = [expands EXCEPT ![r.file] = @ + 1]
                  /\ UNCHANGED <<fileCache, responses, errorLog, errorSinks>>
    /\ UNCHANGED <<template, data, stops, rendererOptions, sessionVars, driverVars,
                   captureVars>>

\* expand() resolves: the content is stored in the cache and sent.
ExpandDone(req) ==
    /\ req \in pending
    /\ pending' = pending \ {req}
    /\ fileCache' = [fileCache EXCEPT ![req.key] = template[req.file]]
    /\ responses' = [responses EXCEPT ![req.id] = Sent(req.url, template[req.file])]
    /\ UNCHANGED <<template, data, expands, errorLog, nRequests, stops, rendererOptions,
                   errorSinks, sessionVars, driverVars, captureVars>>

ExpandFailed_CachesFailure(req) ==
    /\ req \in pending
    /\ pending' = pending \ {req}
    /\ responses' = [responses EXCEPT ![req.id] = ErrorResponse(req.url)]
    /\ errorLog' = errorLog \cup {req.id}
    /\ errorSinks' = errorSinks \cup {ErrorSink(WebServerOf(rendererOptions))}
    /\ fileCache' = [fileCache EXCEPT ![req.key] = Str("Not Found")]
    /\ UNCHANGED <<template, data, expands, nRequests, stops, rendererOptions, sessionVars,
                   driverVars, captureVars>>

\* expand() rejects: the catch block logs and answers 404.
ExpandFailed(req) ==
    /\ req \in pending
    /\ pending' = pending \ {req}
    /\ responses' = [responses EXCEPT ![req.id] = ErrorResponse(req.url)]
    /\ errorLog' = errorLog \cup {req.id}
    /\ errorSinks' = errorSinks \cup {ErrorSink(WebServerOf(rendererOptions))}
    /\ UNCHANGED <<template, data, fileCache, expands, nRequests, stops, rendererOptions,
                   sessionVars, driverVars, captureVars>>

\* What the stop and close actions leave alone.
stopFrame == <<browserVars, templateWebServer, nServers, templateConfig, webServer,
               requestedPortNo, assignedPortNo, boundPort, load, unloading, ending,
               renderVars, lastLife, lastRead, sequential, ncalls, template, data,
               fileCache, pending, responses, expands, errorLog, nRequests,
               rendererOptions, errorSinks, driverVars, captureVars>>

\* WebServer.stop(): this.server.close(callback).  The server stops
\* accepting connections; close on a server that is already closing hands
\* its callback an error.
WebServerStop ==
    /\ server[1]
    /\ Len(stops) < MaxStops
    /\ stops' = Append(stops, [st |-> "pending", err |-> CloseErr(1)])
    /\ sock' = IF sock[1] = "listening" THEN [sock EXCEPT ![1] = "closing"] ELSE sock
    /\ UNCHANGED <<server, stopFrame>>

CloseCallback_KeepsHandle ==
    /\ sock[1] = "closing"
    /\ pending = {}
    /\ sock' = [sock EXCEPT ![1] = "closed"]
    /\ stops' = [k \in 1..Len(stops) |->
                    IF stops[k].st # "pending" THEN stops[k]
                    ELSE [stops[k] EXCEPT !.st = IF stops[k].err THEN "rejected"
                                                 ELSE "resolved"]]
    /\ UNCHANGED <<server, stopFrame>>

\* Every connection has ended and the socket is closed: the callbacks of
\* close run.  Each sets this.server to null, then rejects with the error it
\* was handed or resolves.
CloseCallback ==
    /\ sock[1] = "closing"
    /\ pending = {}
    /\ sock' = [sock EXCEPT ![1] = "closed"]
    /\ server' = [server EXCEPT ![1] = FALSE]
    /\ stops' = [k \in 1..Len(stops) |->
                    IF stops[k].st # "pending" THEN stops[k]
                    ELSE [stops[k] EXCEPT !.st = IF stops[k].err THEN "rejected"
                                                 ELSE "resolved"]]
    /\ UNCHANGED stopFrame

HttpNext ==
    \/ \E url \in RequestUrls : HttpRequest(url)
    \/ \E req \in pending : ExpandDone(req)
    \/ \E req \in pending : ExpandFailed(req)
    \/ WebServerStop
    \/ CloseCallback

SpecWebServer == HttpInit /\ [][HttpNext]_vars

\* The close callback is called once the socket has closed, and every
\* expansion settles.
SpecWebServerFair ==
    /\ StopInit /\ [][HttpNext]_vars
    /\ WF_vars(CloseCallback)
    /\ WF_vars(\E req \in pending : ExpandDone(req) \/ ExpandFailed(req))

\* The WebServer of a TemplateRenderer that was given a logger, or none.
SpecLogging == LoggingInit /\ [][HttpNext]_vars

\* ==================================================== captureImage, capturePDF
\* One call of captureImage or capturePDF, statement by statement, and one
\* call of TemplateRenderer.renderImage or renderPDF by a caller who has
\* started the renderer and loaded a template.
CaptureEntries == {"captureImage", "capturePDF"}
DirectEntries == {"renderImage", "renderPDF"}

\* The options argument: omitted, or an object with leaveBrowserOpen.
CaptureOptions ==
    {Undefined} \cup
    {[t |-> "object", leaveBrowserOpen |-> v] : v \in {Undefined, Bool(TRUE), Bool(FALSE)}}

\* The options captureImage and capturePDF hand to deinitTemplateRenderer:
\* it is called with the renderer alone.
DeinitOptions(options) == Undefined

\* deinitTemplateRenderer returns before the teardown:
\* options && options.leaveBrowserOpen
SkipsTeardown(options) == Truthy(options) /\ Truthy(options.leaveBrowserOpen)

CaptureInit ==
    /\ InitBrowser
    /\ InitTemplate
    /\ DriverIdle
    /\ NoHttp
    /\ capEntry \in CaptureEntries \cup DirectEntries
    /\ capOptions \in CaptureOptions
    /\ dirExists \in BOOLEAN
    /\ capPc = IF capEntry \in CaptureEntries THEN "ensureDir" ELSE "render"
    /\ capBrowser = IF capEntry \in CaptureEntries THEN "none" ELSE "running"
    /\ capTemplate = IF capEntry \in CaptureEntries THEN "none" ELSE "loaded"
    /\ capRender = NoRender

\* await fs.ensureDir(path.dirname(outputPath))
EnsureDirDone ==
    /\ capPc = "ensureDir"
    /\ \/ /\ dirExists' = TRUE
          /\ capPc' = "start"
       \/ /\ ~dirExists
          /\ capPc' = "rejected"
          /\ UNCHANGED dirExists
    /\ UNCHANGED <<capEntry, capOptions, capBrowser, capTemplate, capRender, sessionVars,
                   driverVars, httpVars>>

\* initTemplateRenderer: new TemplateRenderer(options); await start()
CaptureStartDone ==
    /\ capPc = "start"
    /\ capBrowser' = "running"
    /\ capPc' = "loadTemplate"
    /\ UNCHANGED <<capEntry, capOptions, dirExists, capTemplate, capRender, sessionVars,
                   driverVars, httpVars>>

\* initTemplateRenderer: await loadTemplate(templatePath, data, port)
CaptureLoadDone ==
    /\ capPc = "loadTemplate"
    /\ \/ /\ capTemplate' = "loaded"
          /\ capPc' = "render"
       \/ /\ capPc' = "rejected"
          /\ UNCHANGED capTemplate
    /\ UNCHANGED <<capEntry, capOptions, dirExists, capBrowser, capRender, sessionVars,
                   driverVars, httpVars>>

\* TemplateRenderer.renderImage / renderPDF: preRenderCheck, then the render
\* of the WebPageRenderer is handed to the browser driver.
CaptureRenderCall ==
    /\ capPc = "render"
    /\ capBrowser = "running" /\ capTemplate = "loaded"
    /\ capRender' = [reached |-> TRUE, dirExisted |-> dirExists]
    /\ capPc' = "rendering"
    /\ UNCHANGED <<capEntry, capOptions, dirExists, capBrowser, capTemplate, sessionVars,
                   driverVars, httpVars>>

\* The render settles.  It cannot write its file into a directory that does
\* not exist.  After a render of captureImage / capturePDF,
\* deinitTemplateRenderer runs up to its first await.
CaptureRenderDone ==
    /\ capPc = "rendering"
    /\ \/ /\ capRender.dirExisted
          /\ capPc' = IF capEntry \in DirectEntries THEN "resolved"
                      ELSE IF SkipsTeardown(DeinitOptions(capOptions)) THEN "resolved"
                      ELSE "unloadTemplate"
       \/ capPc' = "rejected"
    /\ UNCHANGED <<capEntry, capOptions, dirExists, capBrowser, capTemplate, capRender,
                   sessionVars, driverVars, httpVars>>

\* deinitTemplateRenderer: await templateRenderer.unloadTemplate()
CaptureUnloadDone ==
    /\ capPc = "unloadTemplate"
    /\ \/ /\ capTemplate' = "unloaded"
          /\ capPc' = "end"
       \/ /\ capPc' = "rejected"
          /\ UNCHANGED capTemplate
    /\ UNCHANGED <<capEntry, capOptions, dirExists, capBrowser, capRender, sessionVars,
                   driverVars, httpVars>>

\* deinitTemplateRenderer: await templateRenderer.end()
CaptureEndDone ==
    /\ capPc = "end"
    /\ capBrowser' = "ended"
    /\ capPc' = "resolved"
    /\ UNCHANGED <<capEntry, capOptions, dirExists, capTemplate, capRender, sessionVars,
                   driverVars, httpVars>>

CaptureNext ==
    \/ EnsureDirDone
    \/ CaptureStartDone
    \/ CaptureLoadDone
    \/ CaptureRenderCall
    \/ CaptureRenderDone
    \/ CaptureUnloadDone
    \/ CaptureEndDone

SpecCapture == CaptureInit /\ [][CaptureNext]_vars

\* ================================================================ claims
\* No call of the caller is in flight and no unloadTemplate is still waiting.
Quiescent == ~CallsInFlight /\ unloading = {}

\* The errors TemplateRenderer.preRenderCheck throws.
UsageErrors == {"NotStarted", "NoTemplate"}

\* The caller's view of a session that is not started or holds no template:
\* no lifecycle call has settled yet, no loadTemplate was ever called, or the
\* latest lifecycle call to settle is an unloadTemplate or an end that resolved.
NoTemplateView ==
    \/ lastLife.op = "none"
    \/ nServers = 0
    \/ (lastLife.op \in {"unloadTemplate", "end"} /\ lastLife.ok)

\* A render call is made in this step.
RenderCalled == lastRender'.n # lastRender.n

LoadResolvedLast(n) ==
    /\ sequential
    /\ ~CallsInFlight
    /\ webPageRenderer # 0
    /\ lastLife = Settled("loadTemplate", TRUE, n)

\* loadTemplate call n was made while the template of an earlier, resolved
\* loadTemplate was still loaded.
IsReload(n) == load[n].prev # 0 /\ load[load[n].prev].pc = "resolved"

\* C2: when loadTemplate is called while a template is loaded, then once the
\* call has resolved the session holds the new template web server: getUrl()
\* returns its URL and preRenderCheck passes.
C2_ReloadHoldsNewTemplate ==
    \A n \in ServerIds :
        LoadResolvedLast(n) /\ IsReload(n)
            => /\ templateWebServer = n
               /\ GetUrl = Url(boundPort[n])
               /\ PreRenderCheck = "ok"

\* C3: on a re-load the previous asset server has finished closing its
\* listening socket before the new asset server begins to bind.
C3_OldClosedBeforeNewBinds ==
    \A n \in ServerIds :
        sequential /\ webPageRenderer # 0 /\ sock[n] = "binding" /\ IsReload(n)
            => sock[load[n].prev] \notin {"listening", "closing"}

\* C4: in every state reached by a sequence of calls at most one asset server
\* of the session is listening, and a listening server is the one the session
\* references.
C4_OneReferencedServer ==
    sequential /\ webPageRenderer # 0 =>
        /\ Cardinality({n \in ServerIds : sock[n] = "listening"}) <= 1
        /\ \A n \in ServerIds : sock[n] = "listening" => templateWebServer = n

\* template.json holds a JSON object whose waitSelector is a non-empty string.
HasValidWaitSelector(file) ==
    /\ file.kind = "json"
    /\ file.value.t = "object"
    /\ file.value.waitSelector.t = "string"
    /\ file.value.waitSelector.v # ""

\* The errors the configuration phase of TemplateWebServer.start throws: the
\* two configuration messages, and the TypeError of reading waitSelector of
\* the document null.
ConfigFailures == {"ConfigNotFound", "ConfigInvalid", "TypeError"}

\* C5: a loadTemplate whose template.json is missing, unreadable or lacks a
\* valid waitSelector is rejected by the configuration phase, and no web
\* server was created and no socket bound by that call, then or later.
C5_ConfigErrorBindsNothing ==
    /\ lastRead.n # 0 /\ ~HasValidWaitSelector(lastRead.file)
        => /\ load[lastRead.n].pc = "rejected"
           /\ load[lastRead.n].err \in ConfigFailures
    /\ \A n \in ServerIds :
        load[n].pc = "rejected" /\ load[n].err \in ConfigFailures
            => /\ ~webServer[n]
               /\ ~server[n]
               /\ sock[n] = "none"
               /\ boundPort[n] = 0

\* C5 witness: the first loadTemplate of a started session read a template.json
\* without waitSelector, was rejected, and no server is listening.
C5_Witness ==
    /\ lastRead.n = 1
    /\ lastRead.file.kind = "json"
    /\ lastRead.file.value = Config(Undefined, Undefined)
    /\ load[1].pc = "rejected" /\ load[1].err = "ConfigInvalid"
    /\ webPageRenderer # 0
    /\ \A m \in ServerIds : sock[m] # "listening"

\* C6: a loadTemplate that failed with ConfigNotFound or ConfigInvalid leaves
\* the session as it was in state Started: no template web server, no
\* configuration retained, a render call fails with 'no template is loaded'
\* and getUrl() fails.
C6_FailedLoadLeavesStarted ==
    \A n \in ServerIds :
        /\ sequential /\ Quiescent
        /\ lastLife = Settled("loadTemplate", FALSE, n)
        /\ load[n].err \in {"ConfigNotFound", "ConfigInvalid"}
        /\ webPageRenderer # 0
        => /\ templateWebServer = 0
           /\ templateConfig[n] = JsNull
           /\ RenderOutcome = "NoTemplate"
           /\ GetUrl = TypeError

\* The loadTemplate call passed the configuration phase.
PassedConfigPhase(n) ==
    \/ load[n].pc \in {"inflate", "listen", "resolved", "hung"}
    \/ load[n].pc = "rejected" /\ load[n].err = "InflateError"

\* C7: the validation accepts a configuration iff its waitSelector is a
\* non-empty string; anything else is rejected by the configuration phase of
\* loadTemplate, and no render call ever fails on, or navigates with, a
\* missing waitSelector.
C7_WaitSelectorCheckedAtLoad ==
    /\ lastRead.n # 0
        => /\ PassedConfigPhase(lastRead.n) <=> HasValidWaitSelector(lastRead.file)
           /\ ~HasValidWaitSelector(lastRead.file)
                => /\ load[lastRead.n].pc = "rejected"
                   /\ load[lastRead.n].err \in ConfigFailures
    /\ lastRender.out # "NoWaitSelector"
    /\ RenderOutcome # "NoWaitSelector"
    /\ RenderOutcome = "navigate"
        => /\ templateConfig[templateWebServer].waitSelector.t = "string"
           /\ templateConfig[templateWebServer].waitSelector.v # ""

\* C7 witness: a template.json whose waitSelector is a number was read and the
\* loadTemplate was rejected as invalid; the configuration is still held.
C7_Witness ==
    /\ lastRead.n # 0
    /\ lastRead.file.kind = "json"
    /\ lastRead.file.value = Config(Num(5), Undefined)
    /\ load[lastRead.n].pc = "rejected" /\ load[lastRead.n].err = "ConfigInvalid"
    /\ templateConfig[lastRead.n] = Config(Num(5), Undefined)

\* C8: after loadTemplate has resolved, getUrl() returns the URL of host
\* 127.0.0.1 with the port the socket is bound to, which is not 0.
C8_UrlCarriesBoundPort ==
    \A n \in ServerIds :
        LoadResolvedLast(n)
            => /\ boundPort[n] # 0
               /\ GetUrl = [host |-> "127.0.0.1", port |-> boundPort[n]]

\* C9: every navigation handed to the browser goes to a server that was
\* listening and carries the port that server was bound to.
C9_NavigateAfterBind ==
    \A v \in navs : v.listening /\ v.url = Url(v.bound)

\* C10: getUrl() returns the base URL of the active asset server when a
\* template is loaded, and fails when none is (before start, in Started,
\* after unloadTemplate, after end).
C10_GetUrlByState ==
    /\ \A n \in ServerIds :
        LoadResolvedLast(n) => sock[n] = "listening" /\ GetUrl = WebServerGetUrl(n)
    /\ sequential /\ Quiescent /\ NoTemplateView => GetUrl = TypeError

\* C11: start() on a renderer that is already started is refused and creates
\* no second browser driver: at most one WebPageRenderer of the session has a
\* live browser.
C11_OneLiveBrowser ==
    sequential => Cardinality({b \in BrowserIds : nightmare[b] = "live"}) <= 1

\* C12: a loadTemplate called before start() is refused and binds no asset
\* server: while start() was never called, no socket of the session is
\* binding or listening and no loadTemplate has resolved.
C12_NoLoadBeforeStart ==
    sequential /\ nBrowsers = 0 =>
        \A n \in ServerIds : /\ sock[n] \notin {"binding", "listening"}
                              /\ load[n].pc # "resolved"

\* C13: end() is idempotent.  Once an end() has resolved, and likewise on a
\* renderer on which neither start nor loadTemplate was ever called, a call
\* of end() stops no server, ends no browser and resolves; and an end() that
\* settled this way left every server and browser as it was.
C13_EndIdempotent ==
    /\ sequential /\ ~CallsInFlight /\ lastLife.op = "end" /\ lastLife.ok
        => /\ EndOutcome = "noop"
           /\ templateWebServer = 0
           /\ webPageRenderer = 0
    /\ nBrowsers = 0 /\ nServers = 0 => EndOutcome = "noop"

\* C13 witness: a renderer was started and ended (its browser has ended), and
\* then a second end() resolved without stopping or ending anything.
C13_Witness ==
    /\ sequential /\ ~CallsInFlight
    /\ lastLife = SettledNoOp("end")
    /\ nBrowsers = 1 /\ browser[1] = "ended" /\ nightmare[1] = "null"
    /\ webPageRenderer = 0

\* C14: unloadTemplate() stops the asset server when one is active and does
\* nothing when no template is loaded, and leaves the browser driver handle
\* alone: once it has resolved on a started renderer, no asset server of the
\* session is listening, no template web server is held and the renderer is
\* still started.
C14_UnloadStopsServer ==
    /\ sequential /\ Quiescent /\ webPageRenderer # 0
    /\ lastLife.op = "unloadTemplate" /\ lastLife.ok
    => /\ \A n \in ServerIds : sock[n] # "listening"
       /\ templateWebServer = 0
       /\ PreRenderCheck = "NoTemplate"

\* C15: end() on a renderer with a loaded template unloads it: once end()
\* has resolved no asset server is listening and the renderer is idle, and
\* while the browser is being ended no asset server is still listening or
\* closing (the server stop completed first).
C15_EndStopsServerFirst ==
    /\ sequential /\ ~CallsInFlight /\ lastLife.op = "end" /\ lastLife.ok
        => /\ \A n \in ServerIds : sock[n] \notin {"listening", "closing"}
           /\ webPageRenderer = 0
           /\ templateWebServer = 0
    /\ sequential /\ ending # {}
        => \A n \in ServerIds : sock[n] \notin {"listening", "closing"}

\* A render settles in this step.
RenderSettled == rendering' < rendering

\* C16: a render call and its completion leave the session as it was: the
\* same template web server with the same configuration, web server and
\* port, and the same web page renderer with its browser; and when a render
\* that navigated settles, the renderer still holds the template web server
\* it rendered and a following render would navigate again.
C16_RenderKeepsSession ==
    /\ [][RenderCalled \/ RenderSettled
            => UNCHANGED <<templateWebServer, templateConfig, webServer, assignedPortNo,
                           server, sock, boundPort, webPageRenderer, nightmare, browser>>]_vars
    /\ [][RenderSettled /\ sequential /\ lastRender.out = "navigate"
            => /\ \E v \in navs : v.n = lastRender.n /\ templateWebServer' = v.tws
               /\ RenderOutcome' = "navigate"]_vars

\* C17: renders do not overlap on one browser: with a single web page
\* renderer and every lifecycle call settled, at most one render is in
\* flight.
C17_OneRenderAtATime ==
    /\ nBrowsers <= 1
    /\ unloading = {} /\ ending = {}
    /\ \A n \in ServerIds : ~LoadPending(n)
    => rendering <= 1

\* C20: when the socket of an asset server could not be bound, loadTemplate
\* has rejected (it does not stay pending), and a loadTemplate that resolved
\* has a bound socket.
C20_BindFailureRejects ==
    sequential /\ webPageRenderer # 0 =>
        \A n \in ServerIds :
            /\ sock[n] = "failed" => load[n].pc = "rejected"
            /\ load[n].pc = "resolved" => boundPort[n] # 0

\* The render under study was given a captureSelector that is a non-empty string.
CaptureSelectorGiven ==
    wprOptions.captureSelector.t = "string" /\ wprOptions.captureSelector.v # ""

\* The selector the claim names: waitSelector when captureSelector is
\* omitted, else captureSelector.
ClaimedCropSelector ==
    IF wprOptions.captureSelector = Undefined THEN wprOptions.waitSelector
    ELSE wprOptions.captureSelector

\* C18: renderImage measures the crop rectangle on the element matched by
\* waitSelector when captureSelector is omitted, and on the element matched
\* by captureSelector when one is given; the screenshot is cropped to that
\* rectangle, and an image render that resolved took such a screenshot.
C18_CropSelectorChoice ==
    wprFmt = "image" /\ (wprOptions.captureSelector = Undefined \/ CaptureSelectorGiven)
    => /\ \A k \in 1..Len(driverLog) :
            /\ driverLog[k].op = "evaluate" /\ driverLog[k].what = "rect"
                => driverLog[k].sel = ClaimedCropSelector
            /\ driverLog[k].op = "screenshot"
                => driverLog[k].rect = RectOf(ClaimedCropSelector)
       /\ wprPc = "resolved"
            => /\ Len(driverLog) > 0
               /\ driverLog[Len(driverLog)].op = "screenshot"
               /\ \E k \in 1..Len(driverLog) :
                    driverLog[k].op = "evaluate" /\ driverLog[k].what = "rect"

\* C18 witness: an image render without captureSelector resolved, cropped to
\* the rectangle of the element matched by waitSelector.
C18_Witness ==
    /\ wprFmt = "image" /\ wprPc = "resolved"
    /\ wprOptions = Config(Str("#chart"), Undefined)
    /\ driverLog[Len(driverLog)] = [op |-> "screenshot", rect |-> RectOf(Str("#chart"))]

\* C19: renderPDF never consults captureSelector: the driver actions of a PDF
\* render are those of the same render with any other captureSelector, its
\* wait is on waitSelector, and the print options are landscape, page size
\* 297000 x 210000, margins type 0.
C19_PdfIgnoresCaptureSelector ==
    wprFmt = "pdf"
    => /\ \A cs \in CaptureSelectors :
            driverLog = SubSeq(PdfScript(RenderUrl, [wprOptions EXCEPT !.captureSelector = cs]),
                               1, Len(driverLog))
       /\ \A k \in 1..Len(driverLog) :
            /\ driverLog[k].op = "wait" => driverLog[k].sel = wprOptions.waitSelector
            /\ driverLog[k].op \notin {"screenshot"}
            /\ driverLog[k].op = "evaluate" => driverLog[k].what # "rect"
            /\ driverLog[k].op = "pdf"
                => /\ driverLog[k].printOptions.landscape = TRUE
                   /\ driverLog[k].printOptions.pageSize = [width |-> 297000, height |-> 210000]
                   /\ driverLog[k].printOptions.marginsType = 0
       /\ wprPc = "resolved" => driverLog[Len(driverLog)].op = "pdf"

\* C19 witness: a PDF render resolved although its captureSelector matches
\* no element of the page.
C19_Witness ==
    /\ wprFmt = "pdf" /\ wprPc = "resolved"
    /\ wprOptions = Config(Str("#chart"), Str("#legend"))
    /\ "#legend" \notin page
    /\ driverLog[Len(driverLog)].op = "pdf"

\* The file system path a response's request asked for.
PathOf(resp) == FileSystemPath(FileName(resp.url))

Answered(i) == responses[i].status # 0

\* C21: a request for a path that is absent from the template's file tree is
\* answered 404 and its error is logged; handling it leaves the file cache,
\* the expansions and the listening socket as they were, so that every
\* request for an existing path whose expansion succeeds is answered 200 with
\* that file's content, whatever failed before it.
C21_MissingFileIs404 ==
    [][
        /\ \A i \in RequestIds :
            (~Answered(i) /\ responses'[i].status # 0
                /\ PathOf(responses'[i]) \notin DOMAIN template)
            => /\ responses'[i].status = 404
               /\ i \in errorLog'
               /\ UNCHANGED <<fileCache, expands, pending, sock>>
               /\ sock[1] = "listening"
        /\ \A j \in RequestIds :
            (responses'[j].status # 0 /\ PathOf(responses'[j]) \in DOMAIN template
                /\ j \notin errorLog')
            => /\ responses'[j].status = 200
               /\ responses'[j].body = template[PathOf(responses'[j])]
    ]_vars

\* A request for a missing file was answered 404, and a later request for
\* index.html was answered with its content by the same listening server.
C21_Witness ==
    /\ responses[1] = ErrorResponse(<<"", "missing.js">>)
    /\ 1 \in errorLog
    /\ responses[2] = Sent(<<"", "index.html">>, template[<<"index.html">>])
    /\ sock[1] = "listening"

\* C22: templateFile.expand() is called at most once per file of the
\* template during the lifetime of one server, whatever the interleaving of
\* the requests and whatever the file expands to.
C22_ExpandOncePerPath ==
    \A p \in TemplatePaths : expands[p] <= 1

\* The data endpoint and the body it is said to answer with.
DataEndpoint == <<"", "data">>
JsonOf(d) == [t |-> "json", of |-> d]

\* C23: every request to the data endpoint is answered 200 with the data
\* object given to WebServer.start, serialized as JSON, whatever the template
\* holds.
C23_DataEndpointServesData ==
    \A i \in RequestIds :
        (Answered(i) /\ responses[i].url = DataEndpoint)
        => /\ responses[i].status = 200
           /\ responses[i].body = JsonOf(data)

\* C24: whenever a render has been handed to the browser driver, the parent
\* directory of its output file existed at that moment, for captureImage and
\* capturePDF and for TemplateRenderer.renderImage / renderPDF called
\* directly.
C24_DirEnsuredBeforeRender ==
    capRender.reached => capRender.dirExisted

LeaveBrowserOpen == Truthy(capOptions) /\ Truthy(capOptions.leaveBrowserOpen)

\* C25: when captureImage or capturePDF has resolved, the template is still
\* loaded and the browser still running if options.leaveBrowserOpen was
\* true, and the template is unloaded and the browser ended otherwise.
C25_LeaveBrowserOpenSkipsTeardown ==
    (capEntry \in CaptureEntries /\ capPc = "resolved")
    => IF LeaveBrowserOpen
       THEN capTemplate = "loaded" /\ capBrowser = "running"
       ELSE capTemplate = "unloaded" /\ capBrowser = "ended"

\* C26: once the browser has crashed the driver instance is invalid: a
\* render called after the crash is rejected and hands no action to the
\* crashed browser (until end() and start() have been called again).
C26_CrashInvalidatesDriver ==
    crashed = "idle" => (wprPc \in {"idle", "rejected"} /\ driverLog = <<>>)

\* The steps of renderImage: navigate, wait, measure the body, resize the
\* viewport, measure the capture rectangle, take the screenshot.
ImageSteps == <<"goto", "wait", "evaluate", "viewport", "evaluate", "screenshot">>

\* C27: the driver actions of renderImage are, in this order, goto, wait,
\* the measure of the body, the viewport resize to that size, the measure of
\* the capture rectangle and the screenshot cropped to that rectangle; the
\* resize is issued only after the body measure has completed, the rectangle
\* measure only after the resize has completed, and the screenshot only
\* after the rectangle measure has completed.
C27_ImageStepsInSequence ==
    wprFmt = "image"
    => /\ Len(driverLog) <= Len(ImageSteps)
       /\ wprDone <= Len(driverLog)
       /\ \A k \in 1..Len(driverLog) : driverLog[k].op = ImageSteps[k]
       /\ Len(driverLog) >= 3 => driverLog[3].what = "bodySize"
       /\ Len(driverLog) >= 4 => driverLog[4].size = driverLog[3].what
       /\ Len(driverLog) >= 5 => driverLog[5].what = "rect"
       /\ Len(driverLog) >= 6 => driverLog[6].rect = RectOf(driverLog[5].sel)
       /\ Len(driverLog) > 3 => wprDone >= Len(driverLog) - 1
       /\ wprPc = "resolved" => wprDone = Len(ImageSteps)

\* C27 witness: an image render with a captureSelector of its own resolved
\* after all six steps.
C27_Witness ==
    /\ wprFmt = "image" /\ wprPc = "resolved"
    /\ wprOptions = Config(Str("#chart"), Str("#legend"))
    /\ Len(driverLog) = 6 /\ wprDone = 6

Navigations == {k \in 1..Len(driverLog) : driverLog[k].op = "goto"}

\* C28: when a step of a render fails the render rejects with that failure
\* and no later step executes: every step that has completed succeeded, a
\* rejected render stopped at the step that failed, and once rejected it
\* completes and issues nothing more.  A render issues exactly one
\* navigation (no retry).
C28_FailureStopsRender ==
    [][
        /\ \A k \in 1..wprDone' : ~ActionFails(driverLog'[k])
        /\ (wprPc' = "rejected" /\ driverLog' # <<>>)
            => /\ wprDone' < Len(driverLog')
               /\ ActionFails(driverLog'[wprDone' + 1]) \/ crashed' # "no"
        /\ driverLog' # <<>> => Cardinality(Navigations') = 1
        /\ wprPc = "rejected" => UNCHANGED <<wprPc, driverLog, wprDone>>
        /\ (wprPc = "running" /\ ActionFails(driverLog[wprDone + 1]))
            => (UNCHANGED <<driverLog, wprDone>> /\ wprPc' \in {"running", "rejected"})
    ]_vars

\* C28 witness: the navigation failed; the render rejected with the wait and
\* the measure still queued and nothing completed.
C28_Witness ==
    /\ wprPc = "rejected" /\ ~reachable /\ crashed = "no"
    /\ wprDone = 0
    /\ Len(driverLog) = 3 /\ driverLog[1].op = "goto"

\* The browser driver of the WebPageRenderer is not there (not started, or
\* ended), or the options carry no waitSelector.
WprBadUsage ==
    \/ nightmare[webPageRenderer] = "null"
    \/ ~Truthy(wprOptions.waitSelector)

\* C29: a renderImage / renderPDF of a WebPageRenderer that is not started
\* (or has been ended), or whose options carry no waitSelector, is rejected
\* before any action, navigation included, is issued to the driver, and it
\* leaves the driver as it was.
C29_UsageErrorBeforeNavigation ==
    [][
        /\ WprBadUsage'
            => /\ wprPc' \in {"idle", "rejected"}
               /\ driverLog' = <<>> /\ wprDone' = 0
        /\ (WprBadUsage /\ wprPc = "idle" /\ wprPc' # "idle")
            => /\ wprPc' = "rejected"
               /\ UNCHANGED <<browserVars, crashed, driverLog, wprDone>>
    ]_vars

\* C29 witness: a render with a valid waitSelector was rejected because the
\* WebPageRenderer was not started.
C29_Witness ==
    /\ wprPc = "rejected"
    /\ nightmare[webPageRenderer] = "null"
    /\ wprOptions.waitSelector = Str("#chart")
    /\ driverLog = <<>>

\* A step of loadTemplate or unloadTemplate: a call, or a completion of the
\* I/O either of them waits for.
TemplateStep ==
    \/ load' # load
    \/ unloading' # unloading
    \/ lastLife' # lastLife /\ lastLife'.op \in {"loadTemplate", "unloadTemplate"}

Launched == {b \in BrowserIds : browser[b] # "none"}
Terminated == {b \in BrowserIds : browser[b] = "ended"}

\* C30: no step of loadTemplate or unloadTemplate creates, replaces or
\* terminates the browser driver; each start launches one browser, and in a
\* session of sequential calls with one start, an end() that has resolved
\* has terminated that one browser and no other.
C30_TemplateOpsKeepBrowser ==
    [][
        /\ TemplateStep => UNCHANGED browserVars
        /\ Launched' = 1..nBrowsers'
        /\ (sequential' /\ nBrowsers' = 1 /\ lastLife' = Settled("end", TRUE, 0))
            => Terminated' = {1}
    ]_vars

\* C30 witness: start, loadTemplate, unloadTemplate and end ran one after
\* the other; the one browser launched has been terminated.
C30_Witness ==
    /\ sequential /\ ncalls = 4
    /\ nBrowsers = 1 /\ nServers = 1
    /\ load[1].pc = "resolved" /\ sock[1] = "closed"
    /\ lastLife = Settled("end", TRUE, 0)
    /\ Launched = {1} /\ Terminated = {1}

\* C31: two image renders of the same static page by one WebPageRenderer
\* hand the same crop rectangle to screenshot: the second measure does not
\* depend on the viewport the first render left behind.
C31_SameRectangleTwice ==
    Len(shots) = 2 => shots[1] = shots[2]

\* The logical file a url names: index.html for "/", else the segments
\* between its slashes.
LogicalFile(url) == IF url = <<"", "">> THEN <<"index.html">> ELSE Tail(url)

\* C32: a request for "/" that is answered with content is answered with the
\* content of index.html, the content a request for "/index.html" gets, and
\* it is answered 404 only when its expansion failed; every other url is
\* looked up as the file named by its segments: answered with that file's
\* content, or 404 when the template holds no such file or its expansion
\* failed.
C32_RootServesIndexHtml ==
    \A i \in RequestIds :
        Answered(i)
        => LET f == LogicalFile(responses[i].url) IN
            /\ responses[i].status \in {200, 404}
            /\ responses[i].status = 200
                => (f \in DOMAIN template /\ responses[i].body = template[f])
            /\ responses[i].status = 404
                => (f \notin DOMAIN template \/ (i \in errorLog /\ expands[f] >= 1))
            /\ (f \notin DOMAIN template) => responses[i].status = 404

\* C32 witness: "/" and "/index.html" were both answered with the content of
\* index.html, and a file in a subdirectory with its own.
C32_Witness ==
    /\ responses[1] = Sent(<<"", "">>, template[<<"index.html">>])
    /\ responses[2] = Sent(<<"", "index.html">>, template[<<"index.html">>])
    /\ responses[3] = Sent(<<"", "js", "app.js">>, template[<<"js", "app.js">>])

StopCalls == 1..MaxStops
StopPending(k) == k <= Len(stops) /\ stops[k].st = "pending"
StopSettled(k) == k <= Len(stops) /\ stops[k].st # "pending"

\* C33: a stop() resolves only when the socket has closed with every
\* request answered, and rejects only when close reported an error; once a
\* stop() has settled the server handle is null; and a pending stop()
\* settles once no request is in flight.
C33_StopSettlesWhenClosed ==
    /\ [](\A k \in StopCalls :
            /\ (StopSettled(k) /\ stops[k].st = "resolved")
                => (sock[1] = "closed" /\ pending = {} /\ ~stops[k].err)
            /\ (StopSettled(k) /\ stops[k].st = "rejected") => stops[k].err
            /\ StopSettled(k) => ~server[1])
    /\ \A k \in StopCalls : (StopPending(k) /\ pending = {}) ~> StopSettled(k)

\* C33 witness: stop() was called after a request had arrived, and resolved
\* after the request was answered, the socket closed and the handle null.
C33_Witness ==
    /\ stops = <<[st |-> "resolved", err |-> FALSE]>>
    /\ Answered(1) /\ responses[1].status = 200
    /\ sock[1] = "closed" /\ ~server[1]

\* C34: handling a page script error, a page load failure or a console
\* message only logs: the step changes nothing of the render in flight (it
\* is neither rejected nor advanced), of the WebPageRenderer or of the
\* TemplateRenderer, and each event logs at the level of its kind.
C34_ObservationOnlyLogs ==
    [][wprLogged' # wprLogged
        => /\ UNCHANGED <<renderState, sessionVars>>
           /\ wprPc' = "running"
           /\ \E ev \in PageEvents : wprLogged' = Logs(ev)]_vars

\* C34 witness: a page load failure was logged during an image render, and
\* the render resolved.
C34_Witness ==
    /\ wprLogged = <<"error", "error", "error", "error", "error">>
    /\ wprPc = "resolved"
    /\ wprFmt = "image" /\ Len(shots) = 1

\* n pixels is length q (in 1/Scale pixels) rounded up: a whole number of
\* pixels, not smaller than q and less than one pixel above it.
RoundedUp(n, q) == n * Scale >= q /\ (n - 1) * Scale < q

\* C35: the crop rectangle handed to screenshot has x, y, width and height
\* equal to left, top, right - left and bottom - top of the element's
\* bounding client rectangle, each rounded up to a whole pixel, so that none
\* is smaller than the measured value.
C35_CropRectRoundedUp ==
    [][Len(shots') > Len(shots)
        => LET r == BoundingClientRect(layout, CropSelector(wprOptions).v, viewport)
               c == shots'[Len(shots')]
           IN /\ RoundedUp(c.x, r.left)
              /\ RoundedUp(c.y, r.top)
              /\ RoundedUp(c.width, r.right - r.left)
              /\ RoundedUp(c.height, r.bottom - r.top)]_vars

\* C35 witness: an element offset by half a pixel and 300.25 pixels wide
\* was cropped at x = 1 with width 301.
C35_Witness ==
    /\ layout = [margin |-> 0, fluid |-> FALSE, offset |-> 2, extra |-> 1]
    /\ Len(shots) = 1
    /\ shots[1].x = 1 /\ shots[1].width = 301

\* C36: captureImage and capturePDF release what they acquired on every exit
\* path: once the call has settled, resolved or rejected, no template server
\* is left listening and no browser is left running (leaveBrowserOpen aside).
C36_ReleasedOnEveryExit ==
    (capEntry \in CaptureEntries /\ capPc \in {"resolved", "rejected"} /\ ~LeaveBrowserOpen)
    => (capBrowser # "running" /\ capTemplate # "loaded")

\* C37: when unloadTemplate() or end() is called again before an earlier
\* call has resolved, the server's stop is issued exactly once and both calls
\* resolve: while a caller's stop of a listening server is pending, no other
\* stop of that server is pending, and none that will be handed an error.
C37_OverlappingStopsIssueOnce ==
    \A u, v \in unloading :
        (u.from # "load" /\ v.from # "load" /\ u.tws = v.tws /\ ~v.err) => u = v

\* No start() and no end() of TemplateWebServer n is in progress.
TwsAtRest(n) == ~LoadPending(n) /\ ~\E u \in unloading : u.tws = n

\* C38: whenever no start() or end() of a TemplateWebServer is in progress,
\* its templateConfig is set exactly when its web server is listening; in
\* particular after a failed start() (invalid waitSelector, inflation error,
\* bind error) templateConfig is unset again, so that a new start() is not
\* refused as 'already started'.
C38_ConfigSetIffListening ==
    \A n \in ServerIds :
        TwsAtRest(n) => (Truthy(templateConfig[n]) <=> sock[n] = "listening")

\* C39: every entry of the file cache equals the expansion of the template
\* file its URL resolves to, and a request that fails (file not found,
\* expansion error) adds no entry and changes none.
C39_CacheHoldsExpansions ==
    /\ [](\A k \in CacheKeys :
            fileCache[k] # Undefined
            => /\ FileSystemPath(k) \in DOMAIN template
               /\ fileCache[k] = template[FileSystemPath(k)])
    /\ [][(\E i \in RequestIds : ~Answered(i) /\ responses'[i].status = 404)
          => fileCache' = fileCache]_vars

\* C39 witness: index.html was expanded and cached under both of its URLs,
\* then the expansion of js/app.js failed and left the cache as it was.
C39_Witness ==
    /\ responses[1] = Sent(Root, template[IndexHtml])
    /\ responses[2] = Sent(<<"", "index.html">>, template[IndexHtml])
    /\ responses[3] = ErrorResponse(<<"", "js", "app.js">>)
    /\ fileCache[IndexHtml] = template[IndexHtml]
    /\ fileCache[<<"", "index.html">>] = template[IndexHtml]
    /\ fileCache[<<"", "js", "app.js">>] = Undefined

\* The caller supplied a logger in the options.
SuppliedLog == Truthy(rendererOptions) /\ Truthy(rendererOptions.log)

\* C40: when the caller supplied a logger, the error messages of the
\* template's web server go to that logger's error method and none to the
\* console; when no logger was supplied they go to the console.
C40_ErrorsGoToSuppliedLogger ==
    errorSinks \subseteq {IF SuppliedLog THEN "logger" ELSE "console"}
====
